---- MODULE Spec2Model ----
(***************************************************************************)
(* Knowledge-base server: the relational store (server/storage.ts, the     *)
(* shared schema) and the HTTP handlers of server/routes.ts.               *)
(*                                                                         *)
(* The store is one record `db` holding the five tables; every storage     *)
(* method is an operator from a store to a result (the new store, whether  *)
(* the statement threw, the rows it returned).  A handler composes these   *)
(* operators exactly as the route does.                                    *)
(***************************************************************************)
EXTENDS Integers, Sequences, FiniteSets, TLC

VARIABLES
    db,            \* the relational store: users, categories, tags, articles, articleTags
    sessions,      \* express-session: session id -> userId (NoUser when the session has none)
    now,           \* the clock read by new Date()
    last,          \* the last request handled and its response
    everPublished, \* history: ids of articles a create/update carrying status = published was applied to
    reqs,          \* requests in flight (handlers suspended at an await)
    client         \* the browser of session s1: the auth query, the location, the page shown

vars == <<db, sessions, now, last, everPublished, reqs, client>>

-----------------------------------------------------------------------------
(* Bounds of the model *)

MaxUsers == 2
MaxCategories == 2
MaxTags == 2
MaxArticles == 2
MaxViews == 2
MaxClock == 1
MaxTagIds == 2
MaxGets == 3
MaxRegistrations == 2
MaxPatches == 2

(* SQL NULL / JSON null of a nullable column: a value outside every column's range *)
NULL == -99

(* NULL in a text column, null for a string property *)
NullText == "null"

(* req.session.userId of a session that carries none *)
NoUser == 0

SessionIds == {"s1", "s2"}

-----------------------------------------------------------------------------
(* Request payloads *)

UsernameInputs == {"alice", "bob", "al"}
EmailInputs == {"alice@x.com", "bob@x.com"}
PasswordInputs == {"secret1", "pw"}
FullNameInputs == {"Alice A"}
NameInputs == {"intro", "tutorial"}
TitleInputs == {"Hello", ""}

(* String lengths of the payload strings, as zod's min() sees them *)
StrLen(s) ==
    CASE s = "alice" -> 5
      [] s = "bob" -> 3
      [] s = "al" -> 2
      [] s = "secret1" -> 7
      [] s = "pw" -> 2
      [] s = "Alice A" -> 7
      [] s = "Bob B" -> 5
      [] s = "Hello" -> 5
      [] s = "World" -> 5
      [] s = "" -> 0
      [] OTHER -> 1

(* z.string().email() *)
IsEmail(s) == s \in EmailInputs

EmptyBody == [k \in {} |-> 0]

Has(body, k) == k \in DOMAIN body

(* The query strings of GET /api/articles/:id: none, ?edit=true (what the editor page
   sends), and ?edit, a flag without a value, which req.query holds as "" *)
ViewQuery == EmptyBody

EditQuery == [edit |-> "true"]

BareEditQuery == [edit |-> ""]

(* A string in a condition: every string but the empty one is truthy *)
Truthy(v) == v # ""

(* !req.query.edit is false *)
EditFlag(query) == Has(query, "edit") /\ Truthy(query.edit)

Without(body, keys) == [k \in (DOMAIN body) \ keys |-> body[k]]

(* bcrypt.hash / bcrypt.compare *)
Hash(password) == <<"bcrypt", password>>

Compare(password, hash) == hash = Hash(password)

-----------------------------------------------------------------------------
(* Schema: the tables and their constraints *)

ArticleColumns ==
    {"id", "title", "content", "status", "categoryId", "authorId", "views",
     "createdAt", "updatedAt", "publishedAt"}

UserColumns == {"id", "username", "password", "email", "fullName", "role"}

EmptyDb ==
    [users |-> {}, categories |-> {}, tags |-> {}, articles |-> {}, articleTags |-> {},
     nextId |-> [users |-> 1, categories |-> 1, tags |-> 1, articles |-> 1]]

Ids(rows) == {r.id : r \in rows}

(* users.username and users.email are unique *)
UsersUnique(rows) ==
    \A a, b \in rows : a.id # b.id => a.username # b.username /\ a.email # b.email

(* categories.name and tags.name are unique *)
NameUnique(rows) ==
    \A a, b \in rows : a.id # b.id => a.name # b.name

(* articles.categoryId references categories.id, articles.authorId references users.id *)
ArticlesFk(d) ==
    \A a \in d.articles :
        /\ a.authorId \in Ids(d.users)
        /\ a.categoryId = NULL \/ a.categoryId \in Ids(d.categories)

(* articleTags.articleId references articles.id, articleTags.tagId references tags.id *)
ArticleTagsFk(d) ==
    \A l \in d.articleTags :
        /\ l.articleId \in Ids(d.articles)
        /\ l.tagId \in Ids(d.tags)

(* Results of a storage call: it resolves with rows, or rejects leaving the store as it is *)
Ok(d, rows) == [db |-> d, threw |-> FALSE, rows |-> rows]

Throw(d) == [db |-> d, threw |-> TRUE, rows |-> {}]

-----------------------------------------------------------------------------
(* DatabaseStorage: users *)

getUser(d, id) == {u \in d.users : u.id = id}

getUserByUsername(d, username) == {u \in d.users : u.username = username}

getUserByEmail(d, email) == {u \in d.users : u.email = email}

(* Mutant: the insert is not checked against the unique constraints *)
createUserUnchecked(d, insertUser) ==
    LET row == [id |-> d.nextId.users, username |-> insertUser.username,
                password |-> insertUser.password, email |-> insertUser.email,
                fullName |-> insertUser.fullName,
                role |-> IF Has(insertUser, "role") THEN insertUser.role ELSE "employee"]
    IN Ok([d EXCEPT !.users = @ \cup {row}, !.nextId.users = @ + 1], {row})

createUser(d, insertUser) ==
    LET row == [id |-> d.nextId.users, username |-> insertUser.username,
                password |-> insertUser.password, email |-> insertUser.email,
                fullName |-> insertUser.fullName,
                role |-> IF Has(insertUser, "role") THEN insertUser.role ELSE "employee"]
    IN IF UsersUnique(d.users \cup {row})
       THEN Ok([d EXCEPT !.users = @ \cup {row}, !.nextId.users = @ + 1], {row})
       ELSE Throw(d)

(* Mutant: the delete is not checked against the foreign key of articles.authorId *)
deleteUserUnchecked(d, id) == Ok([d EXCEPT !.users = {u \in @ : u.id # id}], {})

(* articles.authorId references users.id with no onDelete: a referenced user is kept *)
deleteUser(d, id) ==
    LET d2 == [d EXCEPT !.users = {u \in @ : u.id # id}]
    IN IF ArticlesFk(d2) THEN Ok(d2, {}) ELSE Throw(d)

-----------------------------------------------------------------------------
(* DatabaseStorage: categories and tags *)

createCategory(d, insertCategory) ==
    LET row == [id |-> d.nextId.categories, name |-> insertCategory.name]
    IN IF NameUnique(d.categories \cup {row})
       THEN Ok([d EXCEPT !.categories = @ \cup {row}, !.nextId.categories = @ + 1], {row})
       ELSE Throw(d)

deleteCategory(d, id) ==
    LET d2 == [d EXCEPT !.categories = {c \in @ : c.id # id}]
    IN IF ArticlesFk(d2) THEN Ok(d2, {}) ELSE Throw(d)

createTag(d, insertTag) ==
    LET row == [id |-> d.nextId.tags, name |-> insertTag.name]
    IN IF NameUnique(d.tags \cup {row})
       THEN Ok([d EXCEPT !.tags = @ \cup {row}, !.nextId.tags = @ + 1], {row})
       ELSE Throw(d)

(* Mutant: the tag row is deleted without its links *)
deleteTagNoCascade(d, id) == Ok([d EXCEPT !.tags = {t \in @ : t.id # id}], {})

(* onDelete: "cascade" on articleTags.tagId *)
deleteTag(d, id) ==
    Ok([d EXCEPT !.tags = {t \in @ : t.id # id},
                 !.articleTags = {l \in @ : l.tagId # id}], {})

-----------------------------------------------------------------------------
(* DatabaseStorage: articles *)

(* A request's tagIds: omitted (undefined), or a list of tag ids *)
NoTagIds == [given |-> FALSE, ids |-> <<>>]

TagIdsOf(ids) == [given |-> TRUE, ids |-> ids]

(* gen_random_uuid() for a row of articleTags: an id no row of the table holds *)
RECURSIVE FreshIds(_, _)
FreshIds(used, n) ==
    IF n = 0 THEN <<>>
    ELSE LET i == CHOOSE j \in 1..(Cardinality(used) + 1) : j \notin used
         IN <<i>> \o FreshIds(used \cup {i}, n - 1)

(* primary key of articles *)
ArticlesPk(rows) == Cardinality(Ids(rows)) = Cardinality(rows)

(* notNull() on the columns of articles *)
ArticlesNotNull(rows) ==
    \A a \in rows : a.id # NULL /\ a.authorId # NULL /\ a.views # NULL
                    /\ a.createdAt # NULL /\ a.updatedAt # NULL
                    /\ a.title # NullText /\ a.content # NullText /\ a.status # NullText

ArticlesOk(d) ==
    ArticlesPk(d.articles) /\ ArticlesNotNull(d.articles) /\ ArticlesFk(d) /\ ArticleTagsFk(d)

(* column defaults of the articles table *)
ArticleDefault(d, t, c) ==
    CASE c = "id" -> d.nextId.articles
      [] c = "status" -> "draft"
      [] c \in {"title", "content"} -> NullText
      [] c = "views" -> 0
      [] c = "createdAt" -> t
      [] c = "updatedAt" -> t
      [] OTHER -> NULL

(* db.insert(articles).values({...insertArticle, publishedAt}).returning() *)
insertArticleRow(d, t, insertArticle) ==
    LET values == [publishedAt |->
                      IF Has(insertArticle, "status") /\ insertArticle.status = "published"
                      THEN t ELSE NULL] @@ insertArticle
        row == [c \in ArticleColumns |->
                   IF c \in DOMAIN values THEN values[c] ELSE ArticleDefault(d, t, c)]
        d2 == [d EXCEPT !.articles = @ \cup {row}, !.nextId.articles = @ + 1]
    IN IF ArticlesOk(d2) THEN Ok(d2, {row}) ELSE Throw(d)

(* db.insert(articleTags).values(tagIds.map(...)): one row per element of tagIds *)
insertArticleTags(d, articleId, ids) ==
    LET fresh == FreshIds(Ids(d.articleTags), Len(ids))
        rows == {[id |-> fresh[i], articleId |-> articleId, tagId |-> ids[i]] :
                    i \in 1..Len(ids)}
        d2 == [d EXCEPT !.articleTags = @ \cup rows]
    IN IF ArticleTagsFk(d2) THEN Ok(d2, rows) ELSE Throw(d)

createArticle(d, t, insertArticle, tagIds) ==
    LET r1 == insertArticleRow(d, t, insertArticle)
    IN IF r1.threw THEN r1
       ELSE IF tagIds.given /\ Len(tagIds.ids) > 0
       THEN LET article == CHOOSE a \in r1.rows : TRUE
                r2 == insertArticleTags(r1.db, article.id, tagIds.ids)
            IN IF r2.threw THEN Throw(r1.db) ELSE Ok(r2.db, r1.rows)
       ELSE r1

(* Mutant: publishedAt is stamped only on the first publication *)
updateArticleRowStampsOnce(d, t, id, updateData) ==
    LET hit == {a \in d.articles : a.id = id}
        values(a) == [updatedAt |-> t]
                     @@ (IF /\ Has(updateData, "status") /\ updateData.status = "published"
                            /\ a.publishedAt = NULL
                         THEN [publishedAt |-> t] ELSE EmptyBody)
                     @@ Without(updateData, {"updatedAt", "publishedAt"})
        upd(a) == [c \in ArticleColumns |->
                      IF c \in DOMAIN values(a) THEN values(a)[c] ELSE a[c]]
        new == {upd(a) : a \in hit}
        d2 == [d EXCEPT !.articles = (@ \ hit) \cup new]
    IN IF ArticlesOk(d2) THEN Ok(d2, new) ELSE Throw(d)

(* Mutant: publishedAt is written as null, not left out, when the update does not publish *)
updateArticleRowNullsPublishedAt(d, t, id, updateData) ==
    LET values == [updatedAt |-> t,
                   publishedAt |-> IF Has(updateData, "status") /\ updateData.status = "published"
                                   THEN t ELSE NULL]
                  @@ updateData
        hit == {a \in d.articles : a.id = id}
        upd(a) == [c \in ArticleColumns |-> IF c \in DOMAIN values THEN values[c] ELSE a[c]]
        new == {upd(a) : a \in hit}
        d2 == [d EXCEPT !.articles = (@ \ hit) \cup new]
    IN Ok(d2, new)

(* db.update(articles).set({...updateData, updatedAt, publishedAt}).where(id).returning() *)
updateArticleRow(d, t, id, updateData) ==
    LET values == [updatedAt |-> t]
                  @@ (IF Has(updateData, "status") /\ updateData.status = "published"
                      THEN [publishedAt |-> t] ELSE EmptyBody)
                  @@ Without(updateData, {"updatedAt", "publishedAt"})
        hit == {a \in d.articles : a.id = id}
        upd(a) == [c \in ArticleColumns |-> IF c \in DOMAIN values THEN values[c] ELSE a[c]]
        new == {upd(a) : a \in hit}
        d2 == [d EXCEPT !.articles = (@ \ hit) \cup new]
    IN IF ArticlesOk(d2) THEN Ok(d2, new) ELSE Throw(d)

(* Mutant: the existing links are kept, the new ones are added to them *)
deleteArticleTagsKeepsLinks(d, id) == Ok(d, {})

(* db.delete(articleTags).where(eq(articleTags.articleId, id)) *)
deleteArticleTags(d, id) ==
    Ok([d EXCEPT !.articleTags = {l \in @ : l.articleId # id}], {})

(* Mutant: omitted tagIds are treated as the empty list *)
updateArticleAlwaysReplaces(d, t, id, updateData, tagIds) ==
    LET r1 == updateArticleRow(d, t, id, updateData)
    IN IF r1.threw THEN r1
       ELSE LET r2 == deleteArticleTags(r1.db, id)
            IN IF Len(tagIds.ids) > 0
               THEN LET r3 == insertArticleTags(r2.db, id, tagIds.ids)
                    IN IF r3.threw THEN Throw(r2.db) ELSE Ok(r3.db, r1.rows)
               ELSE Ok(r2.db, r1.rows)

updateArticle(d, t, id, updateData, tagIds) ==
    LET r1 == updateArticleRow(d, t, id, updateData)
    IN IF r1.threw THEN r1
       ELSE IF tagIds.given
       THEN LET r2 == deleteArticleTags(r1.db, id)
            IN IF Len(tagIds.ids) > 0
               THEN LET r3 == insertArticleTags(r2.db, id, tagIds.ids)
                    IN IF r3.threw THEN Throw(r2.db) ELSE Ok(r3.db, r1.rows)
               ELSE Ok(r2.db, r1.rows)
       ELSE r1

(* onDelete: "cascade" on articleTags.articleId *)
deleteArticle(d, id) ==
    Ok([d EXCEPT !.articles = {a \in @ : a.id # id},
                 !.articleTags = {l \in @ : l.articleId # id}], {})

(* Mutant: the update has no where clause *)
incrementArticleViewsNoWhere(d, id) ==
    Ok([d EXCEPT !.articles = {[a EXCEPT !.views = @ + 1] : a \in @}], {})

(* UPDATE articles SET views = views + 1 WHERE id = $1: one statement of the store *)
incrementArticleViews(d, id) ==
    Ok([d EXCEPT !.articles =
            {IF a.id = id THEN [a EXCEPT !.views = @ + 1] ELSE a : a \in @}], {})

(* findMany with author, category and articleTags.tag resolved: every article *)
findManyArticles(d) ==
    {[article |-> a,
      author |-> {u \in d.users : u.id = a.authorId},
      category |-> {c \in d.categories : c.id = a.categoryId},
      tags |-> {t \in d.tags : \E l \in d.articleTags : l.articleId = a.id /\ l.tagId = t.id}] :
        a \in d.articles}

(* The orders a list of the rows may come in *)
Orderings(rows) ==
    {s \in [1..Cardinality(rows) -> rows] : \A i, j \in DOMAIN s : i # j => s[i] # s[j]}

(* orderBy: [desc(articles.createdAt)] *)
CreatedAtDesc(s) ==
    \A i, j \in DOMAIN s : i < j => s[i].article.createdAt >= s[j].article.createdAt

(* The lists getAllArticles() may resolve with: every article, latest createdAt first;
   the query does not say in which order rows of equal createdAt come *)
getAllArticles(d) == {s \in Orderings(findManyArticles(d)) : CreatedAtDesc(s)}

(* limit: number = 5 *)
DefaultLimit == 5

(* Mutant: the query has no limit *)
getRecentArticlesNoLimit(d, limit) == getAllArticles(d)

(* The lists getRecentArticles(limit) may resolve with: the same query with LIMIT;
   limit = NULL when the caller passes none *)
getRecentArticles(d, limit) ==
    LET n == IF limit = NULL THEN DefaultLimit ELSE limit
    IN {SubSeq(s, 1, IF Len(s) < n THEN Len(s) ELSE n) : s \in getAllArticles(d)}

getArticleTags(d, articleId) ==
    {t \in d.tags : \E l \in d.articleTags : l.articleId = articleId /\ l.tagId = t.id}

(* findFirst with author, category and articleTags.tag resolved *)
getArticleById(d, id) ==
    {[article |-> a,
      author |-> getUser(d, a.authorId),
      category |-> {c \in d.categories : c.id = a.categoryId},
      tags |-> getArticleTags(d, a.id)] : a \in {x \in d.articles : x.id = id}}

-----------------------------------------------------------------------------
(* Request payloads of the routes *)

UserBodies ==
    [username : UsernameInputs, email : EmailInputs, password : PasswordInputs,
     fullName : FullNameInputs]

LoginBodies == [username : UsernameInputs, password : PasswordInputs]

NameBodies == [name : NameInputs]

TagIdLists == UNION {[1..n -> 1..MaxTags] : n \in 0..MaxTagIds}

TagIdsInputs == {NoTagIds} \cup {TagIdsOf(ids) : ids \in TagIdLists}

Field(k, values) == {EmptyBody} \cup {[x \in {k} |-> v] : v \in values}

PatchArticleBodies ==
    {a @@ b @@ c : a \in Field("status", {"draft", "published"}),
                   b \in Field("views", {0, -1}),
                   c \in Field("publishedAt", {NULL})}

(* insertUserSchema.parse: username min 3, password min 6, an email, fullName min 2;
   role is optional *)
insertUserSchemaAccepts(body) ==
    /\ {"username", "password", "email", "fullName"} \subseteq DOMAIN body
    /\ StrLen(body.username) >= 3 /\ StrLen(body.password) >= 6
    /\ IsEmail(body.email) /\ StrLen(body.fullName) >= 2
    /\ Has(body, "role") => body.role # NullText

(* insertUserSchema.parse: the keys of the insert schema are kept, every other key is stripped *)
insertUserSchemaParse(body) ==
    [k \in (DOMAIN body) \cap (UserColumns \ {"id"}) |-> body[k]]

(* loginSchema.parse: username min 1, password min 1 *)
loginSchemaAccepts(body) ==
    StrLen(body.username) >= 1 /\ StrLen(body.password) >= 1

(* insertArticleSchema.parse: title min 1, content min 1, authorId required; status is
   an optional string, categoryId an optional nullable string *)
insertArticleSchemaAccepts(body) ==
    /\ {"title", "content", "authorId"} \subseteq DOMAIN body
    /\ StrLen(body.title) >= 1 /\ StrLen(body.content) >= 1
    /\ Has(body, "status") => body.status # NullText

(* Mutant: the parse keeps the keys the insert schema omits *)
insertArticleSchemaParseKeepsAll(body) == body

(* insertArticleSchema.parse: the keys of the insert schema are kept, every other key is stripped *)
insertArticleSchemaParse(body) ==
    [k \in (DOMAIN body) \cap {"title", "content", "status", "categoryId", "authorId"}
        |-> body[k]]

(* insertCategorySchema.parse, insertTagSchema.parse: name is a required string *)
insertNameSchemaAccepts(body) == Has(body, "name") /\ body.name # NullText

-----------------------------------------------------------------------------
(* Responses *)

(* res.status(status).json({error}): no User-shaped object in the body *)
Reply(d, status, error) == [db |-> d, status |-> status, error |-> error, users |-> {}]

(* res.json(body): status 200; users are the User-shaped objects the body holds *)
Json(d, users) == [db |-> d, status |-> 200, error |-> "", users |-> users]

(* An object made of some properties of a row *)
Pick(row, keys) == [k \in keys |-> row[k]]

Request(s, route, param, body, tagIds) ==
    [sess |-> s, route |-> route, param |-> param, body |-> body, tagIds |-> tagIds]

Handled(request, reply) ==
    request @@ [status |-> reply.status, error |-> reply.error, users |-> reply.users,
                articles |-> <<>>]

(* Mutant: the middleware lets every request through *)
requireAuthAdmitsAll(userId) == TRUE

(* requireAuth: the session carries a userId *)
requireAuth(userId) == userId # NoUser

Unauthorized(d) == Reply(d, 401, "Unauthorized")

-----------------------------------------------------------------------------
(* Route handlers: the reply and the store a request leaves, from the store it finds *)

(* Mutant: the username lookup is missing, the insert runs into the unique constraint *)
RegisterUserNoUsernameLookup(d, body, keys) ==
    IF ~insertUserSchemaAccepts(body) THEN Reply(d, 400, "validation")
    ELSE IF getUserByEmail(d, body.email) # {}
    THEN Reply(d, 400, "Email already exists")
    ELSE LET data == insertUserSchemaParse(body)
             r == createUser(d, [data EXCEPT !.password = Hash(data.password)])
         IN IF r.threw THEN Reply(r.db, 400, "store")
            ELSE Json(r.db, {Pick(u, keys) : u \in r.rows})

(* Shared body of POST /api/auth/register and POST /api/employees; keys are the
   properties of the created user that the response carries *)
RegisterUser(d, body, keys) ==
    IF ~insertUserSchemaAccepts(body) THEN Reply(d, 400, "validation")
    ELSE IF getUserByUsername(d, body.username) # {}
    THEN Reply(d, 400, "Username already exists")
    ELSE IF getUserByEmail(d, body.email) # {}
    THEN Reply(d, 400, "Email already exists")
    ELSE LET data == insertUserSchemaParse(body)
             r == createUser(d, [data EXCEPT !.password = Hash(data.password)])
         IN IF r.threw THEN Reply(r.db, 400, "store")
            ELSE Json(r.db, {Pick(u, keys) : u \in r.rows})

PostRegisterReply(d, body) == RegisterUser(d, body, {"id", "username", "email"})

(* Mutant: the password is not compared *)
LoginUserAnyPassword(d, body) == getUserByUsername(d, body.username)

(* The user a login authenticates: empty when the username or the password does not match *)
LoginUser(d, body) ==
    {u \in getUserByUsername(d, body.username) : Compare(body.password, u.password)}

PostLoginReply(d, body) ==
    IF ~loginSchemaAccepts(body) THEN Reply(d, 400, "validation")
    ELSE IF LoginUser(d, body) = {} THEN Reply(d, 401, "Invalid credentials")
    ELSE Json(d, {Pick(u, {"id", "username", "email", "fullName", "role"}) :
                     u \in LoginUser(d, body)})

PostLogoutReply(d) == Json(d, {})

GetMeReply(d, userId) ==
    IF userId = NoUser THEN Reply(d, 401, "Not authenticated")
    ELSE IF getUser(d, userId) = {} THEN Reply(d, 404, "User not found")
    ELSE Json(d, {Pick(u, {"id", "username", "email", "fullName", "role"}) :
                     u \in getUser(d, userId)})

(* GET stats, articles, articles/recent, employees, categories, tags *)
CollectionRoutes ==
    {"GET /api/dashboard/stats", "GET /api/articles", "GET /api/articles/recent",
     "GET /api/employees", "GET /api/categories", "GET /api/tags"}

(* employees.map(({ password, ...user }) => user) *)
Sanitized(users) == {Without(u, {"password"}) : u \in users}

(* The User-shaped objects of res.json(articles): the author of each article *)
Authors(articles) == UNION {v.author : v \in articles}

GetCollectionReply(d, userId, route) ==
    IF ~requireAuth(userId) THEN Unauthorized(d)
    ELSE IF route \in {"GET /api/articles", "GET /api/articles/recent"}
    THEN Json(d, Authors(findManyArticles(d)))
    ELSE IF route = "GET /api/employees" THEN Json(d, Sanitized(d.users))
    ELSE Json(d, {})

GetArticleReply(d, userId, id, query) ==
    IF ~requireAuth(userId) THEN Unauthorized(d)
    ELSE IF getArticleById(d, id) = {} THEN Reply(d, 404, "Article not found")
    ELSE IF ~EditFlag(query)
    THEN Json(incrementArticleViews(d, id).db, Authors(getArticleById(d, id)))
    ELSE Json(d, Authors(getArticleById(d, id)))

PostArticleReply(d, t, userId, body, tagIds) ==
    IF ~requireAuth(userId) THEN Unauthorized(d)
    ELSE IF getUser(d, userId) = {} THEN Reply(d, 401, "User not found")
    ELSE LET articleData == [authorId |-> userId] @@ body
             data == insertArticleSchemaParse(articleData)
             r == createArticle(d, t, data, tagIds)
         IN IF ~insertArticleSchemaAccepts(articleData) THEN Reply(d, 400, "validation")
            ELSE IF r.threw THEN Reply(r.db, 400, "store") ELSE Json(r.db, {})

PatchArticleReply(d, t, userId, id, body, tagIds) ==
    IF ~requireAuth(userId) THEN Unauthorized(d)
    ELSE LET r == updateArticle(d, t, id, body, tagIds)
         IN IF r.threw THEN Reply(r.db, 400, "store") ELSE Json(r.db, {})

DeleteArticleReply(d, userId, id) ==
    IF ~requireAuth(userId) THEN Unauthorized(d)
    ELSE Json(deleteArticle(d, id).db, {})

(* Mutant: only an admin may create an employee *)
PostEmployeeReplyAdminOnly(d, userId, body) ==
    IF ~requireAuth(userId) THEN Unauthorized(d)
    ELSE IF \A u \in getUser(d, userId) : u.role # "admin" THEN Reply(d, 403, "Forbidden")
    ELSE RegisterUser(d, body, UserColumns \ {"password"})

PostEmployeeReply(d, userId, body) ==
    IF ~requireAuth(userId) THEN Unauthorized(d)
    ELSE RegisterUser(d, body, UserColumns \ {"password"})

(* Mutant: the caller's own id is not refused *)
DeleteEmployeeReplyNoSelfCheck(d, userId, id) ==
    IF ~requireAuth(userId) THEN Unauthorized(d)
    ELSE LET r == deleteUser(d, id)
         IN IF r.threw THEN Reply(r.db, 500, "store") ELSE Json(r.db, {})

DeleteEmployeeReply(d, userId, id) ==
    IF ~requireAuth(userId) THEN Unauthorized(d)
    ELSE IF id = userId THEN Reply(d, 400, "Cannot delete your own account")
    ELSE LET r == deleteUser(d, id)
         IN IF r.threw THEN Reply(r.db, 500, "store") ELSE Json(r.db, {})

PostCategoryReply(d, userId, body) ==
    IF ~requireAuth(userId) THEN Unauthorized(d)
    ELSE IF ~insertNameSchemaAccepts(body) THEN Reply(d, 400, "validation")
    ELSE LET r == createCategory(d, body)
         IN IF r.threw THEN Reply(r.db, 400, "store") ELSE Json(r.db, {})

DeleteCategoryReply(d, userId, id) ==
    IF ~requireAuth(userId) THEN Unauthorized(d)
    ELSE LET r == deleteCategory(d, id)
         IN IF r.threw THEN Reply(r.db, 500, "store") ELSE Json(r.db, {})

PostTagReply(d, userId, body) ==
    IF ~requireAuth(userId) THEN Unauthorized(d)
    ELSE IF ~insertNameSchemaAccepts(body) THEN Reply(d, 400, "validation")
    ELSE LET r == createTag(d, body)
         IN IF r.threw THEN Reply(r.db, 400, "store") ELSE Json(r.db, {})

DeleteTagReply(d, userId, id) ==
    IF ~requireAuth(userId) THEN Unauthorized(d)
    ELSE Json(deleteTag(d, id).db, {})

(* The router: the reply of the handler registered for the request's route, for the
   routes behind requireAuth and for me *)
ProtectedReply(d, t, userId, request) ==
    LET route == request.route
        id == request.param
        body == request.body
    IN CASE route = "GET /api/auth/me" -> GetMeReply(d, userId)
         [] route \in CollectionRoutes -> GetCollectionReply(d, userId, route)
         [] route = "GET /api/articles/:id" -> GetArticleReply(d, userId, id, body)
         [] route = "POST /api/articles" -> PostArticleReply(d, t, userId, body, request.tagIds)
         [] route = "PATCH /api/articles/:id" ->
                PatchArticleReply(d, t, userId, id, body, request.tagIds)
         [] route = "DELETE /api/articles/:id" -> DeleteArticleReply(d, userId, id)
         [] route = "POST /api/employees" -> PostEmployeeReply(d, userId, body)
         [] route = "DELETE /api/employees/:id" -> DeleteEmployeeReply(d, userId, id)
         [] route = "POST /api/categories" -> PostCategoryReply(d, userId, body)
         [] route = "DELETE /api/categories/:id" -> DeleteCategoryReply(d, userId, id)
         [] route = "POST /api/tags" -> PostTagReply(d, userId, body)
         [] route = "DELETE /api/tags/:id" -> DeleteTagReply(d, userId, id)

-----------------------------------------------------------------------------
(* The server handling one request at a time: one action per route *)

NoRequest ==
    [sess |-> "", route |-> "", param |-> 0, body |-> EmptyBody, tagIds |-> NoTagIds,
     status |-> 0, error |-> "", users |-> {}, articles |-> <<>>]

NoReqs == <<>>

(* The single-page client as it starts: the auth query is loading, nothing is shown *)
NoClient ==
    [isLoading |-> TRUE, user |-> NoUser, visited |-> "/", path |-> "/", page |-> "Skeleton"]

Init ==
    /\ db = EmptyDb
    /\ sessions = [s \in SessionIds |-> NoUser]
    /\ now = 0
    /\ last = NoRequest
    /\ everPublished = {}
    /\ reqs = NoReqs
    /\ client = NoClient

(* Time passes between requests *)
Tick ==
    /\ now < MaxClock
    /\ now' = now + 1
    /\ UNCHANGED <<db, sessions, last, everPublished, reqs, client>>

Serve(request, reply) ==
    /\ db' = reply.db
    /\ last' = Handled(request, reply)

(* Each route takes the sessions that may call it and the payloads they may send *)
PostRegister(S, bodies) ==
    \E s \in S, body \in bodies :
        /\ db.nextId.users <= MaxUsers
        /\ Serve(Request(s, "POST /api/auth/register", 0, body, NoTagIds),
                 PostRegisterReply(db, body))
        /\ UNCHANGED <<sessions, now, everPublished, reqs, client>>

PostLogin(S, bodies) ==
    \E s \in S, body \in bodies :
        LET reply == PostLoginReply(db, body)
        IN /\ Serve(Request(s, "POST /api/auth/login", 0, body, NoTagIds), reply)
           /\ sessions' = IF reply.status = 200
                          THEN [sessions EXCEPT ![s] = (CHOOSE u \in LoginUser(db, body) : TRUE).id]
                          ELSE sessions
           /\ UNCHANGED <<now, everPublished, reqs, client>>

PostLogout(S) ==
    \E s \in S :
        /\ Serve(Request(s, "POST /api/auth/logout", 0, EmptyBody, NoTagIds),
                 PostLogoutReply(db))
        /\ sessions' = [sessions EXCEPT ![s] = NoUser]
        /\ UNCHANGED <<now, everPublished, reqs, client>>

GetMe(S) ==
    \E s \in S :
        /\ Serve(Request(s, "GET /api/auth/me", 0, EmptyBody, NoTagIds),
                 GetMeReply(db, sessions[s]))
        /\ UNCHANGED <<sessions, now, everPublished, reqs, client>>

GetCollection(S) ==
    \E s \in S, route \in CollectionRoutes :
        /\ Serve(Request(s, route, 0, EmptyBody, NoTagIds),
                 GetCollectionReply(db, sessions[s], route))
        /\ UNCHANGED <<sessions, now, everPublished, reqs, client>>

GetArticle(S, queries) ==
    \E s \in S, id \in 1..MaxArticles, query \in queries :
        /\ \A a \in db.articles : a.views < MaxViews
        /\ Serve(Request(s, "GET /api/articles/:id", id, query, NoTagIds),
                 GetArticleReply(db, sessions[s], id, query))
        /\ UNCHANGED <<sessions, now, everPublished, reqs, client>>

PostArticle(S, bodies, tagIdsInputs) ==
    \E s \in S, body \in bodies, tagIds \in tagIdsInputs :
        /\ db.nextId.articles <= MaxArticles
        /\ Serve(Request(s, "POST /api/articles", 0, body, tagIds),
                 PostArticleReply(db, now, sessions[s], body, tagIds))
        /\ everPublished' =
              IF /\ db'.nextId.articles > db.nextId.articles
                 /\ Has(body, "status") /\ body.status = "published"
              THEN everPublished \cup {db.nextId.articles}
              ELSE everPublished
        /\ UNCHANGED <<sessions, now, reqs, client>>

PatchArticle(S, bodies, tagIdsInputs) ==
    \E s \in S, id \in 1..MaxArticles, body \in bodies, tagIds \in tagIdsInputs :
        /\ Serve(Request(s, "PATCH /api/articles/:id", id, body, tagIds),
                 PatchArticleReply(db, now, sessions[s], id, body, tagIds))
        /\ everPublished' =
              IF /\ requireAuth(sessions[s])
                 /\ updateArticleRow(db, now, id, body).rows # {}
                 /\ Has(body, "status") /\ body.status = "published"
              THEN everPublished \cup {id}
              ELSE everPublished
        /\ UNCHANGED <<sessions, now, reqs, client>>

DeleteArticleRoute(S) ==
    \E s \in S, id \in 1..MaxArticles :
        /\ Serve(Request(s, "DELETE /api/articles/:id", id, EmptyBody, NoTagIds),
                 DeleteArticleReply(db, sessions[s], id))
        /\ UNCHANGED <<sessions, now, everPublished, reqs, client>>

PostEmployee(S, bodies) ==
    \E s \in S, body \in bodies :
        /\ db.nextId.users <= MaxUsers
        /\ Serve(Request(s, "POST /api/employees", 0, body, NoTagIds),
                 PostEmployeeReply(db, sessions[s], body))
        /\ UNCHANGED <<sessions, now, everPublished, reqs, client>>

DeleteEmployee(S) ==
    \E s \in S, id \in 1..MaxUsers :
        /\ Serve(Request(s, "DELETE /api/employees/:id", id, EmptyBody, NoTagIds),
                 DeleteEmployeeReply(db, sessions[s], id))
        /\ UNCHANGED <<sessions, now, everPublished, reqs, client>>

PostCategory(S, bodies) ==
    \E s \in S, body \in bodies :
        /\ db.nextId.categories <= MaxCategories
        /\ Serve(Request(s, "POST /api/categories", 0, body, NoTagIds),
                 PostCategoryReply(db, sessions[s], body))
        /\ UNCHANGED <<sessions, now, everPublished, reqs, client>>

DeleteCategoryRoute(S) ==
    \E s \in S, id \in 1..MaxCategories :
        /\ Serve(Request(s, "DELETE /api/categories/:id", id, EmptyBody, NoTagIds),
                 DeleteCategoryReply(db, sessions[s], id))
        /\ UNCHANGED <<sessions, now, everPublished, reqs, client>>

PostTag(S, bodies) ==
    \E s \in S, body \in bodies :
        /\ db.nextId.tags <= MaxTags
        /\ Serve(Request(s, "POST /api/tags", 0, body, NoTagIds),
                 PostTagReply(db, sessions[s], body))
        /\ UNCHANGED <<sessions, now, everPublished, reqs, client>>

DeleteTagRoute(S) ==
    \E s \in S, id \in 1..MaxTags :
        /\ Serve(Request(s, "DELETE /api/tags/:id", id, EmptyBody, NoTagIds),
                 DeleteTagReply(db, sessions[s], id))
        /\ UNCHANGED <<sessions, now, everPublished, reqs, client>>

(* A caller of the storage awaits getRecentArticles(limit): the list it resolves
   with is kept in last.articles *)
GetRecentArticles(limits) ==
    \E limit \in limits : \E articles \in getRecentArticles(db, limit) :
        /\ last' = [NoRequest EXCEPT !.route = "getRecentArticles", !.param = limit,
                                     !.status = 200, !.articles = articles]
        /\ UNCHANGED <<db, sessions, now, everPublished, reqs, client>>

-----------------------------------------------------------------------------------------------------------------------------------------------------
(* The specifications.  Each one starts from the empty store with no       *)
(* session logged in, and calls the routes on one session that registers   *)
(* and logs in one user (its requests before the login are answered 401).  *)

Alice ==
    [username |-> "alice", email |-> "alice@x.com", password |-> "secret1",
     fullName |-> "Alice A"]

(* A valid article payload *)
Hello == [title |-> "Hello", content |-> "World"]

AliceLogin == [username |-> "alice", password |-> "secret1"]

(* Spec: the life of an article's fields: status, publishedAt, views, timestamps *)
Next ==
    \/ Tick
    \/ PostRegister({"s1"}, {Alice})
    \/ PostLogin({"s1"}, {AliceLogin})
    \/ PostArticle({"s1"}, {Hello @@ f : f \in Field("status", {"draft", "published"})}, {NoTagIds})
    \/ PatchArticle({"s1"}, PatchArticleBodies, {NoTagIds})
    \/ GetArticle({"s1"}, {ViewQuery, EditQuery})

Spec == Init /\ [][Next]_vars

(* SpecTags: articles, tags and the links between them *)
TagPatchBodies == {EmptyBody, [status |-> "published"]}

NextTags ==
    \/ PostRegister({"s1"}, {Alice})
    \/ PostLogin({"s1"}, {AliceLogin})
    \/ PostTag({"s1"}, NameBodies)
    \/ DeleteTagRoute({"s1"})
    \/ PostArticle({"s1"}, {Hello}, TagIdsInputs)
    \/ PatchArticle({"s1"}, TagPatchBodies, TagIdsInputs)
    \/ DeleteArticleRoute({"s1"})

SpecTags == Init /\ [][NextTags]_vars

(* SpecAuth: registration, login, logout and the employee routes on two sessions.
   Articles are created on any session; the other article routes and the category
   and tag routes are called by the clients that are not logged in. *)
Anonymous == {s \in SessionIds : sessions[s] = NoUser}

NextAuth ==
    \/ PostRegister(SessionIds, UserBodies)
    \/ PostLogin(SessionIds, LoginBodies)
    \/ PostLogout(SessionIds)
    \/ GetMe(SessionIds)
    \/ PostEmployee(SessionIds, UserBodies)
    \/ DeleteEmployee(SessionIds)
    \/ GetCollection(Anonymous)
    \/ GetArticle(Anonymous, {ViewQuery, EditQuery})
    \/ PostArticle(SessionIds, {Hello}, {NoTagIds})
    \/ PatchArticle(Anonymous, {[status |-> "published"]}, {TagIdsOf(<<>>)})
    \/ DeleteArticleRoute(Anonymous)
    \/ PostCategory(Anonymous, {[name |-> "intro"]})
    \/ DeleteCategoryRoute(Anonymous)
    \/ PostTag(Anonymous, {[name |-> "intro"]})
    \/ DeleteTagRoute(Anonymous)

SpecAuth == Init /\ [][NextAuth]_vars

(* SpecRoles: an admin and an employee, each logged in on a session of their own,
   call every route *)
AliceAdmin == Alice @@ [role |-> "admin"]

Bob == [username |-> "bob", email |-> "bob@x.com", password |-> "secret1", fullName |-> "Bob B"]

BobLogin == [username |-> "bob", password |-> "secret1"]

NextRoles ==
    \/ PostRegister(SessionIds, {AliceAdmin, Bob})
    \/ PostLogin({"s1"}, {AliceLogin})
    \/ PostLogin({"s2"}, {BobLogin})
    \/ GetMe(SessionIds)
    \/ GetCollection(SessionIds)
    \/ PostEmployee(SessionIds, {AliceAdmin, Bob})
    \/ DeleteEmployee(SessionIds)
    \/ PostArticle(SessionIds, {Hello}, {NoTagIds})
    \/ GetArticle(SessionIds, {EditQuery})
    \/ PatchArticle(SessionIds, {EmptyBody}, {NoTagIds})
    \/ DeleteArticleRoute(SessionIds)
    \/ PostCategory(SessionIds, {[name |-> "intro"]})
    \/ PostTag(SessionIds, {[name |-> "intro"]})

SpecRoles == Init /\ [][NextRoles]_vars

(* SpecCreate: articles are created with payloads that also carry the columns the
   insert schema omits, with tagIds omitted, empty, of existing or missing tags,
   repeating an id *)
CreateBodies ==
    {Hello @@ a @@ b : a \in Field("status", {"draft", "published"}),
                       b \in {EmptyBody} \cup [views : {1}, publishedAt : {NULL, 1}]}

CreateTagIds ==
    {NoTagIds} \cup {TagIdsOf(ids) : ids \in {<<>>, <<1>>, <<1, 2>>, <<2, 2>>}}

NextCreate ==
    \/ PostRegister({"s1"}, {Alice})
    \/ PostLogin({"s1"}, {AliceLogin})
    \/ PostTag({"s1"}, NameBodies)
    \/ PostArticle({"s1"}, CreateBodies, CreateTagIds)

SpecCreate == Init /\ [][NextCreate]_vars

(* SpecPatch: every write route is called with payloads that meet and payloads that
   violate the field constraints of the schema *)
ArticleBodies ==
    {EmptyBody, [content |-> "World"]} \cup {[title |-> x, content |-> "World"] : x \in TitleInputs}

NextPatch ==
    \/ PostRegister({"s1"}, UserBodies)
    \/ PostLogin({"s1"}, {AliceLogin})
    \/ PostEmployee({"s1"}, UserBodies)
    \/ PostArticle({"s1"}, ArticleBodies, {NoTagIds})
    \/ PatchArticle({"s1"}, Field("title", TitleInputs), {NoTagIds})
    \/ PostCategory({"s1"}, Field("name", NameInputs))
    \/ PostTag({"s1"}, Field("name", NameInputs))

SpecPatch == Init /\ [][NextPatch]_vars

(* SpecFields: a session creates and updates articles with payloads that carry any
   status text and the columns a client is not meant to set *)
StatusInputs == {"draft", "published", "archived"}

(* An id chosen by a client: no id the store generates *)
ClientId == 9

FieldPostBodies ==
    {Hello @@ a @@ b : a \in Field("status", {"published", "archived"}),
                       b \in Field("authorId", {2})}

FieldPatchBodies ==
    Field("status", StatusInputs) \cup Field("id", {ClientId}) \cup Field("authorId", {2})

NextFields ==
    \/ PostRegister({"s1"}, {Alice})
    \/ PostLogin({"s1"}, {AliceLogin})
    \/ PostEmployee({"s1"}, {Bob})
    \/ PostArticle({"s1"}, FieldPostBodies, {NoTagIds})
    \/ PatchArticle({"s1"}, FieldPatchBodies, {NoTagIds})

SpecFields == Init /\ [][NextFields]_vars

(* SpecStamp: drafts and published articles are created and updated as time passes *)
StampPatchBodies == Field("status", {"draft", "published"}) \cup Field("publishedAt", {NULL})

NextStamp ==
    \/ Tick
    \/ PostRegister({"s1"}, {Alice})
    \/ PostLogin({"s1"}, {AliceLogin})
    \/ PostArticle({"s1"}, {Hello, Hello @@ [status |-> "published"]}, {NoTagIds})
    \/ PatchArticle({"s1"}, StampPatchBodies, {NoTagIds})

SpecStamp == Init /\ [][NextStamp]_vars

(* SpecRecent: articles with and without a category and a tag are created and deleted
   as time passes, and the recent ones are listed with no limit given and with limits
   below and at the number of articles *)
LimitInputs == {NULL, 1, 2}

NextRecent ==
    \/ Tick
    \/ PostRegister({"s1"}, {Alice})
    \/ PostLogin({"s1"}, {AliceLogin})
    \/ PostCategory({"s1"}, {[name |-> "intro"]})
    \/ PostTag({"s1"}, {[name |-> "intro"]})
    \/ PostArticle({"s1"}, {Hello, Hello @@ [categoryId |-> 1]}, {NoTagIds, TagIdsOf(<<1>>)})
    \/ DeleteArticleRoute({"s1"})
    \/ GetRecentArticles(LimitInputs)

SpecRecent == Init /\ [][NextRecent]_vars

(* SpecEdit: articles are created, deleted, and read with each of the query strings *)
NextEdit ==
    \/ PostRegister({"s1"}, {Alice})
    \/ PostLogin({"s1"}, {AliceLogin})
    \/ PostArticle({"s1"}, {Hello}, {NoTagIds})
    \/ DeleteArticleRoute({"s1"})
    \/ GetArticle({"s1"}, {ViewQuery, EditQuery, BareEditQuery})

SpecEdit == Init /\ [][NextEdit]_vars

(* SpecRefs: two users, each on a session of their own, create articles linked to
   tag 1, in category 1 or in none; the first user moves articles into and out of the
   category, and deletes the other user, categories, tags and articles, referenced
   or not *)
RefPatchBodies == {[categoryId |-> 1], [categoryId |-> NULL]}

NextRefs ==
    \/ PostRegister({"s1"}, {Alice})
    \/ PostEmployee({"s1"}, {Bob})
    \/ PostLogin({"s1"}, {AliceLogin})
    \/ PostLogin({"s2"}, {BobLogin})
    \/ DeleteEmployee({"s1"})
    \/ PostCategory({"s1"}, {[name |-> "intro"]})
    \/ DeleteCategoryRoute({"s1"})
    \/ PostTag({"s1"}, {[name |-> "intro"]})
    \/ DeleteTagRoute({"s1"})
    \/ PostArticle(SessionIds, {Hello, Hello @@ [categoryId |-> 1]}, {TagIdsOf(<<1>>)})
    \/ PatchArticle({"s1"}, RefPatchBodies, {NoTagIds})
    \/ DeleteArticleRoute({"s1"})

SpecRefs == Init /\ [][NextRefs]_vars

-----------------------------------------------------------------------------
(* The client: client/src/App.tsx and contexts/AuthContext.tsx.  A component  *)
(* renders a page or a Redirect; a Redirect changes the location and the      *)
(* routes are rendered again.                                                 *)

Page(page) == [page |-> page, to |-> ""]

Redirect(to) == [page |-> "Redirect", to |-> to]

(* The locations a user visits; /articles/1 stands for the paths /articles/:id matches,
   /nowhere for the paths no route matches *)
Paths ==
    {"/login", "/register", "/", "/articles", "/articles/new", "/articles/1",
     "/employees", "/categories", "/tags", "/nowhere"}

ProtectedRoute(isLoading, isAuthenticated, component) ==
    IF isLoading THEN Page("Skeleton")
    ELSE IF ~isAuthenticated THEN Redirect("/login")
    ELSE Page(component)

(* Mutant: a logged-in user is shown the public page *)
PublicRouteNoRedirect(isLoading, isAuthenticated, component) ==
    IF isLoading THEN Page("Skeleton") ELSE Page(component)

PublicRoute(isLoading, isAuthenticated, component) ==
    IF isLoading THEN Page("Skeleton")
    ELSE IF isAuthenticated THEN Redirect("/")
    ELSE Page(component)

(* The Switch of AuthenticatedLayout: the first route whose path matches *)
AuthenticatedLayout(isLoading, isAuthenticated, path) ==
    CASE path = "/" -> ProtectedRoute(isLoading, isAuthenticated, "Dashboard")
      [] path = "/articles" -> ProtectedRoute(isLoading, isAuthenticated, "Articles")
      [] path = "/articles/new" -> ProtectedRoute(isLoading, isAuthenticated, "ArticleEditor")
      [] path = "/articles/1" -> ProtectedRoute(isLoading, isAuthenticated, "ArticleEditor")
      [] path = "/employees" -> ProtectedRoute(isLoading, isAuthenticated, "Employees")
      [] path = "/categories" -> ProtectedRoute(isLoading, isAuthenticated, "Categories")
      [] path = "/tags" -> ProtectedRoute(isLoading, isAuthenticated, "Tags")
      [] OTHER -> Page("NotFound")

Router(isLoading, isAuthenticated, path) ==
    IF isLoading THEN Page("Skeleton")
    ELSE CASE path = "/login" -> PublicRoute(isLoading, isAuthenticated, "Login")
           [] path = "/register" -> PublicRoute(isLoading, isAuthenticated, "Register")
           [] OTHER -> IF isAuthenticated
                       THEN AuthenticatedLayout(isLoading, isAuthenticated, path)
                       ELSE Redirect("/login")

(* The routes are rendered at a location until no Redirect is rendered *)
RECURSIVE Render(_, _, _)
Render(isLoading, user, path) ==
    LET r == Router(isLoading, user # NoUser, path)
    IN IF r.page = "Redirect" THEN Render(isLoading, user, r.to)
       ELSE [isLoading |-> isLoading, user |-> user, visited |-> path, path |-> path,
             page |-> r.page]

(* The user opens a location, or follows a link to it *)
ClientNavigates(paths) ==
    \E path \in paths :
        /\ client' = [Render(client.isLoading, client.user, path) EXCEPT !.visited = path]
        /\ UNCHANGED <<db, sessions, now, last, everPublished, reqs>>

(* The auth query ["/api/auth/me"] settles (the first load, or a refetch): with the
   user of a 200 response; with no user, or with the data it had, when the response is
   an error.  isAuthenticated = !!user, and the routes are rendered again. *)
AuthQuerySettles(s) ==
    LET reply == GetMeReply(db, sessions[s])
    IN \E user \in IF reply.status = 200 THEN {sessions[s]} ELSE {NoUser, client.user} :
          /\ Serve(Request(s, "GET /api/auth/me", 0, EmptyBody, NoTagIds), reply)
          /\ client' = [Render(FALSE, user, client.path) EXCEPT !.visited = client.path]
          /\ UNCHANGED <<sessions, now, everPublished, reqs>>

(* SpecClient: a user registers, logs in and out on session s1, whose browser settles
   its auth query and visits every location *)
NextClient ==
    \/ PostRegister({"s1"}, {Alice})
    \/ PostLogin({"s1"}, {AliceLogin})
    \/ PostLogout({"s1"})
    \/ AuthQuerySettles("s1")
    \/ ClientNavigates(Paths)

SpecClient == Init /\ [][NextClient]_vars

-----------------------------------------------------------------------------
(* Requests in flight.  A handler runs until it awaits the store; other     *)
(* handlers run before it resumes.  reqs holds each request with the await  *)
(* it is suspended at (pc) and what it has read so far (seen).              *)

InFlight(request, pc) ==
    request @@ [pc |-> pc, status |-> 0, error |-> "", seen |-> {}]

Finished(request, status, error) ==
    request @@ [pc |-> "done", status |-> status, error |-> error, seen |-> {}]

Resume(r, pc, seen) == [reqs EXCEPT ![r].pc = pc, ![r].seen = seen]

Finish(r, status, error) ==
    [reqs EXCEPT ![r].pc = "done", ![r].status = status, ![r].error = error]

At(r, route, pc) == reqs[r].route = route /\ reqs[r].pc = pc

(* GET /api/articles/:id arrives: requireAuth, then the handler awaits getArticleById *)
GetArticleArrives(S, queries) ==
    \E s \in S, id \in 1..MaxArticles, query \in queries :
        LET request == Request(s, "GET /api/articles/:id", id, query, NoTagIds)
        IN /\ Len(reqs) < MaxGets
           /\ reqs' = Append(reqs, IF requireAuth(sessions[s])
                                   THEN InFlight(request, "getArticleById")
                                   ELSE Finished(request, 401, "Unauthorized"))
           /\ UNCHANGED <<db, sessions, now, last, everPublished, client>>

(* getArticleById resolves: 404, or the article is kept for the response *)
GetArticleReads(r) ==
    /\ At(r, "GET /api/articles/:id", "getArticleById")
    /\ LET article == getArticleById(db, reqs[r].param)
       IN reqs' = IF article = {} THEN Finish(r, 404, "Article not found")
                  ELSE IF EditFlag(reqs[r].body)
                  THEN [Resume(r, "done", article) EXCEPT ![r].status = 200]
                  ELSE Resume(r, "incrementArticleViews", article)
    /\ UNCHANGED <<db, sessions, now, last, everPublished, client>>

(* Mutant: the handler writes back the views it read, plus one *)
GetArticleIncrementsFromSnapshot(r) ==
    /\ At(r, "GET /api/articles/:id", "incrementArticleViews")
    /\ db' = [db EXCEPT !.articles =
                {IF a.id = reqs[r].param
                 THEN [a EXCEPT !.views = (CHOOSE v \in reqs[r].seen : TRUE).article.views + 1]
                 ELSE a : a \in @}]
    /\ reqs' = Finish(r, 200, "")
    /\ UNCHANGED <<sessions, now, last, everPublished, client>>

(* incrementArticleViews runs as one statement of the store, then res.json(article) *)
GetArticleIncrements(r) ==
    /\ At(r, "GET /api/articles/:id", "incrementArticleViews")
    /\ db' = incrementArticleViews(db, reqs[r].param).db
    /\ reqs' = Finish(r, 200, "")
    /\ UNCHANGED <<sessions, now, last, everPublished, client>>

(* SpecViews: one user logs in and creates articles; GET requests on them overlap *)
NextViews ==
    \/ PostRegister({"s1"}, {Alice})
    \/ PostLogin({"s1"}, {AliceLogin})
    \/ PostArticle({"s1"}, {Hello}, {NoTagIds})
    \/ GetArticleArrives({"s1"}, {ViewQuery, EditQuery})
    \/ \E r \in DOMAIN reqs : GetArticleReads(r)
    \/ \E r \in DOMAIN reqs : GetArticleIncrements(r)

SpecViews == Init /\ [][NextViews]_vars

(* GET /api/articles/:id resumes after its await of getArticleById, which found
   article id at an earlier time (id was created before, other requests were handled
   since): the handler calls incrementArticleViews and answers with what it read *)
GetArticleResumes(S) ==
    \E s \in S, id \in 1..MaxArticles :
        /\ requireAuth(sessions[s])
        /\ id < db.nextId.articles
        /\ \A a \in db.articles : a.views < MaxViews
        /\ Serve(Request(s, "GET /api/articles/:id", id, EmptyBody, NoTagIds),
                 Json(incrementArticleViews(db, id).db, Authors(getArticleById(db, id))))
        /\ UNCHANGED <<sessions, now, everPublished, reqs, client>>

(* SpecIncrement: drafts and published articles, linked to tag 1 once it exists, are
   created, viewed and deleted as time passes; a view may resume after the article
   was deleted *)
NextIncrement ==
    \/ Tick
    \/ PostRegister({"s1"}, {Alice})
    \/ PostLogin({"s1"}, {AliceLogin})
    \/ PostTag({"s1"}, {[name |-> "intro"]})
    \/ PostArticle({"s1"}, {Hello, Hello @@ [status |-> "published"]}, {TagIdsOf(<<1>>)})
    \/ DeleteArticleRoute({"s1"})
    \/ GetArticle({"s1"}, {ViewQuery})
    \/ GetArticleResumes({"s1"})

SpecIncrement == Init /\ [][NextIncrement]_vars

(* PATCH /api/articles/:id arrives: requireAuth, then the handler calls updateArticle,
   which awaits the update of the row *)
PatchArticleArrives(S, ids, bodies, tagIdsInputs) ==
    \E s \in S, id \in ids, body \in bodies, tagIds \in tagIdsInputs :
        LET request == Request(s, "PATCH /api/articles/:id", id, body, tagIds)
        IN /\ Len(reqs) < MaxPatches
           /\ reqs' = Append(reqs, IF requireAuth(sessions[s])
                                   THEN InFlight(request, "update")
                                   ELSE Finished(request, 401, "Unauthorized"))
           /\ UNCHANGED <<db, sessions, now, last, everPublished, client>>

(* The update of the row resolves with the rows it returned, kept in seen; then
   updateArticle awaits the delete of the links, when tagIds is given *)
PatchUpdatesRow(r) ==
    /\ At(r, "PATCH /api/articles/:id", "update")
    /\ LET res == updateArticleRow(db, now, reqs[r].param, reqs[r].body)
       IN /\ db' = res.db
          /\ reqs' = IF res.threw THEN Finish(r, 400, "store")
                     ELSE IF reqs[r].tagIds.given
                     THEN Resume(r, "delete", res.rows)
                     ELSE [Finish(r, 200, "") EXCEPT ![r].seen = res.rows]
    /\ UNCHANGED <<sessions, now, last, everPublished, client>>

(* Mutant: the links the article has are not deleted *)
PatchKeepsLinks(r) ==
    /\ At(r, "PATCH /api/articles/:id", "delete")
    /\ reqs' = IF Len(reqs[r].tagIds.ids) > 0
               THEN [reqs EXCEPT ![r].pc = "insert"]
               ELSE Finish(r, 200, "")
    /\ UNCHANGED <<db, sessions, now, last, everPublished, client>>

(* The delete of the article's links resolves; then updateArticle awaits the insert of
   the new links, when tagIds is not empty *)
PatchDeletesLinks(r) ==
    /\ At(r, "PATCH /api/articles/:id", "delete")
    /\ db' = deleteArticleTags(db, reqs[r].param).db
    /\ reqs' = IF Len(reqs[r].tagIds.ids) > 0
               THEN [reqs EXCEPT ![r].pc = "insert"]
               ELSE Finish(r, 200, "")
    /\ UNCHANGED <<sessions, now, last, everPublished, client>>

(* The insert of the new links resolves, or rejects and the handler's catch answers 400 *)
PatchInsertsLinks(r) ==
    /\ At(r, "PATCH /api/articles/:id", "insert")
    /\ LET res == insertArticleTags(db, reqs[r].param, reqs[r].tagIds.ids)
       IN /\ db' = res.db
          /\ reqs' = IF res.threw THEN Finish(r, 400, "store") ELSE Finish(r, 200, "")
    /\ UNCHANGED <<sessions, now, last, everPublished, client>>

(* SpecReplace: articles linked to tag 1 are created; updates of the articles there
   are (their ids are generated by the store), which replace the links by tags that
   exist and by tags that do not, are in flight together, and may stop at any await *)
ReplaceTagIds == {TagIdsOf(<<1>>), TagIdsOf(<<2>>)}

NextReplace ==
    \/ PostRegister({"s1"}, {Alice})
    \/ PostLogin({"s1"}, {AliceLogin})
    \/ PostTag({"s1"}, NameBodies)
    \/ PostArticle({"s1"}, {Hello}, {TagIdsOf(<<1>>)})
    \/ PatchArticleArrives({"s1"}, Ids(db.articles), {[status |-> "published"]}, ReplaceTagIds)
    \/ \E r \in DOMAIN reqs : PatchUpdatesRow(r)
    \/ \E r \in DOMAIN reqs : PatchDeletesLinks(r)
    \/ \E r \in DOMAIN reqs : PatchInsertsLinks(r)

SpecReplace == Init /\ [][NextReplace]_vars

(* SpecStop: the same with tag 1 only, so that a replacement by tag 2 is rejected, and
   with updates of existing articles arriving once the session is logged in *)
LoggedIn == {s \in SessionIds : sessions[s] # NoUser}

NextStop ==
    \/ PostRegister({"s1"}, {Alice})
    \/ PostLogin({"s1"}, {AliceLogin})
    \/ PostTag({"s1"}, {[name |-> "intro"]})
    \/ PostArticle({"s1"}, {Hello}, {TagIdsOf(<<1>>)})
    \/ PatchArticleArrives(LoggedIn, Ids(db.articles), {[status |-> "published"]}, ReplaceTagIds)
    \/ \E r \in DOMAIN reqs : PatchUpdatesRow(r)
    \/ \E r \in DOMAIN reqs : PatchDeletesLinks(r)
    \/ \E r \in DOMAIN reqs : PatchInsertsLinks(r)

SpecStop == Init /\ [][NextStop]_vars

(* POST /api/auth/register arrives: the payload is parsed, then the handler awaits
   getUserByUsername *)
RegisterArrives(S, bodies) ==
    \E s \in S, body \in bodies :
        LET request == Request(s, "POST /api/auth/register", 0, body, NoTagIds)
        IN /\ Len(reqs) < MaxRegistrations
           /\ reqs' = Append(reqs, IF insertUserSchemaAccepts(body)
                                   THEN InFlight(request, "getUserByUsername")
                                   ELSE Finished(request, 400, "validation"))
           /\ UNCHANGED <<db, sessions, now, last, everPublished, client>>

(* Mutant: the handler goes on to the email lookup whatever the username lookup found *)
RegisterSkipsUsernameLookup(r) ==
    /\ At(r, "POST /api/auth/register", "getUserByUsername")
    /\ reqs' = Resume(r, "getUserByEmail", {})
    /\ UNCHANGED <<db, sessions, now, last, everPublished, client>>

RegisterChecksUsername(r) ==
    /\ At(r, "POST /api/auth/register", "getUserByUsername")
    /\ reqs' = IF getUserByUsername(db, reqs[r].body.username) # {}
               THEN Finish(r, 400, "Username already exists")
               ELSE Resume(r, "getUserByEmail", {})
    /\ UNCHANGED <<db, sessions, now, last, everPublished, client>>

RegisterChecksEmail(r) ==
    /\ At(r, "POST /api/auth/register", "getUserByEmail")
    /\ reqs' = IF getUserByEmail(db, reqs[r].body.email) # {}
               THEN Finish(r, 400, "Email already exists")
               ELSE Resume(r, "createUser", {})
    /\ UNCHANGED <<db, sessions, now, last, everPublished, client>>

(* bcrypt.hash, then createUser: the insert is one statement of the store *)
RegisterCreatesUser(r) ==
    /\ At(r, "POST /api/auth/register", "createUser")
    /\ db.nextId.users <= MaxUsers
    /\ LET body == reqs[r].body
           res == createUser(db, [body EXCEPT !.password = Hash(body.password)])
       IN /\ db' = res.db
          /\ reqs' = IF res.threw THEN Finish(r, 400, "store") ELSE Finish(r, 200, "")
    /\ UNCHANGED <<sessions, now, last, everPublished, client>>

(* SpecRegister: registrations overlap; a user who logged in creates categories and tags *)
NextRegister ==
    \/ RegisterArrives(SessionIds, UserBodies)
    \/ \E r \in DOMAIN reqs : RegisterChecksUsername(r)
    \/ \E r \in DOMAIN reqs : RegisterChecksEmail(r)
    \/ \E r \in DOMAIN reqs : RegisterCreatesUser(r)
    \/ PostLogin({"s1"}, LoginBodies)
    \/ PostCategory({"s1"}, NameBodies)
    \/ PostTag({"s1"}, NameBodies)

SpecRegister == Init /\ [][NextRegister]_vars

-----------------------------------------------------------------------------
(* Properties *)

Range(seq) == {seq[i] : i \in 1..Len(seq)}

LinkedTagIds(d, articleId) == {l.tagId : l \in {x \in d.articleTags : x.articleId = articleId}}

(* C2: in every state an article's publishedAt is non-null exactly when a create or
   an update carrying status = published has been applied to it; an article that
   has only ever been draft has publishedAt unset. *)
C2_PublishedAtIffEverPublished ==
    \A a \in db.articles : (a.publishedAt # NULL) <=> (a.id \in everPublished)

(* C2 witness: one article was published and is a draft again, with publishedAt
   still set; another one was viewed and updated as a draft only and has none. *)
C2_Witness ==
    \E a, b \in db.articles :
        /\ a.status = "draft" /\ a.publishedAt # NULL
        /\ b.id \notin everPublished /\ b.publishedAt = NULL /\ b.views > 0
        /\ last.route = "PATCH /api/articles/:id" /\ last.param = b.id /\ last.status = 200

(* C8 as claimed: across create, PATCH with any body, get-by-id and incrementViews
   an article's views is never negative and never lower than it was. *)
C8_ViewsNeverDecrease ==
    [][\A b \in db'.articles :
          /\ b.views >= 0
          /\ \A a \in db.articles : a.id = b.id => b.views >= a.views]_vars

(* C3: when updateArticle(id, fields, tagIds) completes with tagIds provided, the
   tags linked to article id are exactly the ids of tagIds, and the article
   resolves with exactly those tags (none for the empty list). *)
C3_TagIdsReplaceLinks ==
    (/\ last.route = "PATCH /api/articles/:id"
     /\ last.tagIds.given
     /\ last.status = 200)
    => /\ LinkedTagIds(db, last.param) = Range(last.tagIds.ids)
       /\ \A v \in getArticleById(db, last.param) : Ids(v.tags) = Range(last.tagIds.ids)

(* C3 witness: an update with tagIds = [] completed on an existing article while
   links of another article are still in the table. *)
C3_Witness ==
    /\ last.route = "PATCH /api/articles/:id" /\ last.status = 200
    /\ last.tagIds = TagIdsOf(<<>>)
    /\ last.param \in Ids(db.articles)
    /\ db.nextId.tags > MaxTags
    /\ \E l \in db.articleTags : l.articleId # last.param

(* C4: an update with tagIds omitted leaves every row of articleTags as it was,
   whatever fields it carries. *)
C4_OmittedTagIdsKeepLinks ==
    [][(last'.route = "PATCH /api/articles/:id" /\ ~last'.tagIds.given)
       => db'.articleTags = db.articleTags]_vars

(* C4 witness: an update without tagIds that changed a field completed on an
   article that has two links. *)
C4_Witness ==
    /\ last.route = "PATCH /api/articles/:id" /\ last.status = 200
    /\ ~last.tagIds.given /\ last.body # EmptyBody
    /\ Cardinality({l \in db.articleTags : l.articleId = last.param}) = 2
    /\ \E a \in db.articles : a.id = last.param /\ a.status = "published"

(* C5: deleting a tag removes exactly the links with that tagId and no article;
   deleting an article removes exactly the links with that articleId and no tag;
   afterwards no link refers to the deleted row. *)
C5_DeleteCascadesToLinksOnly ==
    [][/\ (last'.route = "DELETE /api/tags/:id" /\ last'.status = 200)
          => /\ db'.tags = {t \in db.tags : t.id # last'.param}
             /\ db'.articleTags = {l \in db.articleTags : l.tagId # last'.param}
             /\ db'.articles = db.articles
             /\ \A l \in db'.articleTags : l.tagId # last'.param
       /\ (last'.route = "DELETE /api/articles/:id" /\ last'.status = 200)
          => /\ db'.articles = {a \in db.articles : a.id # last'.param}
             /\ db'.articleTags = {l \in db.articleTags : l.articleId # last'.param}
             /\ db'.tags = db.tags
             /\ \A l \in db'.articleTags : l.articleId # last'.param]_vars

(* C5 witness: a tag that had been created is deleted while two articles and a
   link to the other tag remain. *)
C5_Witness ==
    /\ last.route = "DELETE /api/tags/:id" /\ last.status = 200
    /\ last.param < db.nextId.tags /\ last.param \notin Ids(db.tags)
    /\ Cardinality(db.articles) = 2
    /\ db.articleTags # {}

RegistrationRoutes == {"POST /api/auth/register", "POST /api/employees"}

(* C6: a registration (register, or create employee on a logged-in session) whose
   username is the username of an existing user is answered 400, with "Username
   already exists" when the payload is valid, and inserts nothing: exactly one
   user row with that username exists afterwards. *)
C6_DuplicateUsernameRejected ==
    [][(/\ last'.route \in RegistrationRoutes
        /\ last'.route = "POST /api/employees" => sessions[last'.sess] # NoUser
        /\ \E u \in db.users : u.username = last'.body.username)
       => /\ last'.status = 400
          /\ insertUserSchemaAccepts(last'.body) => last'.error = "Username already exists"
          /\ db'.users = db.users
          /\ Cardinality({u \in db'.users : u.username = last'.body.username}) = 1]_vars

(* C6 witness: a create-employee request with a valid payload, a taken username
   and a free email was answered "Username already exists". *)
C6_Witness ==
    /\ last.route = "POST /api/employees"
    /\ last.status = 400 /\ last.error = "Username already exists"
    /\ \A u \in db.users : u.email # last.body.email
    /\ Cardinality(db.users) = 1

UngatedRoutes == {"POST /api/auth/register", "POST /api/auth/login"}

(* C9 as claimed: on every route but register and login a request whose session
   carries no userId is answered 401 and changes neither the store nor the sessions. *)
C9_AllButRegisterAndLoginGated ==
    [][(last'.route \notin UngatedRoutes /\ sessions[last'.sess] = NoUser)
       => (last'.status = 401 /\ db' = db /\ sessions' = sessions)]_vars

(* C9 amended: the same for every route but register, login and logout; logout on
   such a session is answered 200, and changes neither the store nor the sessions. *)
C9_AllButRegisterLoginLogoutGated ==
    [][sessions[last'.sess] = NoUser
       => /\ last'.route \notin (UngatedRoutes \cup {"POST /api/auth/logout"})
             => (last'.status = 401 /\ db' = db /\ sessions' = sessions)
          /\ last'.route = "POST /api/auth/logout"
             => (last'.status = 200 /\ db' = db /\ sessions' = sessions)]_vars

(* C9 witness: with a user registered and logged in on one session, a request to
   create a tag on the other session, which carries no userId, was answered 401. *)
C9_Witness ==
    /\ last.route = "POST /api/tags" /\ last.status = 401
    /\ sessions[last.sess] = NoUser
    /\ \E s \in SessionIds : sessions[s] \in Ids(db.users)
    /\ db.tags = {}

(* C10: DELETE /api/employees/:id with the id of the caller's session is answered
   400 and deletes no user; no request removes the user of the session it is
   issued on. *)
C10_NoSelfDeletion ==
    [][/\ (/\ last'.route = "DELETE /api/employees/:id"
           /\ sessions[last'.sess] # NoUser
           /\ last'.param = sessions[last'.sess])
          => (last'.status = 400 /\ db'.users = db.users)
       /\ \A u \in db.users : u.id = sessions[last'.sess] => u \in db'.users]_vars

(* C10 witness: a session that deleted the other user asked to delete its own
   user and was refused. *)
C10_Witness ==
    /\ last.route = "DELETE /api/employees/:id"
    /\ last.status = 400 /\ last.error = "Cannot delete your own account"
    /\ last.param \in Ids(db.users)
    /\ Cardinality(db.users) = 1 /\ db.nextId.users = 3

GetsServed(articleId) ==
    {r \in DOMAIN reqs : /\ At(r, "GET /api/articles/:id", "done")
                         /\ reqs[r].param = articleId
                         /\ reqs[r].status = 200 /\ ~EditFlag(reqs[r].body)}

GetsIncrementing(articleId) ==
    {r \in DOMAIN reqs : /\ At(r, "GET /api/articles/:id", "incrementArticleViews")
                         /\ reqs[r].param = articleId}

(* C1: whatever the interleaving of the GET requests that increment an article's
   views, once they have all completed its views is its starting value (0 at
   creation) plus their number; before that, it is that value plus the number of
   those that have completed. *)
C1_NoLostIncrement ==
    \A a \in db.articles : a.views = Cardinality(GetsServed(a.id))

(* C1 witness: two requests both read the article at views = 0 before either
   incremented it, both have completed, and views = 2. *)
C1_Witness ==
    \E a \in db.articles :
        /\ a.views = 2
        /\ Cardinality(GetsServed(a.id)) = 2
        /\ GetsIncrementing(a.id) = {}
        /\ \A r \in GetsServed(a.id) : \A v \in reqs[r].seen : v.article.views = 0

(* C7: in every state, also with registrations interleaved, no two users share a
   username or an email, no two categories share a name, no two tags share a name. *)
C7_UniqueKeys ==
    /\ \A a, b \in db.users : a # b => (a.username # b.username /\ a.email # b.email)
    /\ \A a, b \in db.categories : a # b => a.name # b.name
    /\ \A a, b \in db.tags : a # b => a.name # b.name

(* C7 witness: two overlapping registrations with the same username both passed
   the lookups; the store accepted one insert and rejected the other. *)
C7_Witness ==
    \E r1, r2 \in DOMAIN reqs :
        /\ reqs[r1].body.username = reqs[r2].body.username
        /\ reqs[r1].pc = "done" /\ reqs[r1].status = 200
        /\ reqs[r2].pc = "done" /\ reqs[r2].error = "store"
        /\ Cardinality(db.users) = 1

(* C11 as claimed: no response holds a user's password: every User-shaped object of
   a response body, the author inlined in an article of the list, recent and
   get-by-id responses included, has no password property. *)
C11_NoPasswordInResponses ==
    \A u \in last.users : ~Has(u, "password")

ProtectedRoutes ==
    CollectionRoutes \cup
    {"GET /api/auth/me", "GET /api/articles/:id", "POST /api/articles",
     "PATCH /api/articles/:id", "DELETE /api/articles/:id", "POST /api/employees",
     "DELETE /api/employees/:id", "POST /api/categories", "DELETE /api/categories/:id",
     "POST /api/tags", "DELETE /api/tags/:id"}

(* C12: a session gets a userId only by a login on that session that is answered 200,
   whose username is that of an existing user and whose password matches that user's
   hash, and it gets that user's id; a failed login and a registration leave every
   session as it was; a logout leaves its session without userId; a protected
   request on a session without userId is answered 401. *)
C12_SessionLifecycle ==
    [][/\ \A s \in SessionIds :
             (sessions'[s] # NoUser /\ sessions'[s] # sessions[s])
             => /\ last'.route = "POST /api/auth/login" /\ last'.sess = s
                /\ last'.status = 200
                /\ \E u \in db.users : /\ u.id = sessions'[s]
                                       /\ u.username = last'.body.username
                                       /\ u.password = Hash(last'.body.password)
       /\ (last'.route = "POST /api/auth/login" /\ last'.status # 200) => sessions' = sessions
       /\ last'.route \in RegistrationRoutes => sessions' = sessions
       /\ last'.route = "POST /api/auth/logout" => sessions'[last'.sess] = NoUser
       /\ (last'.route \in ProtectedRoutes /\ sessions[last'.sess] = NoUser)
          => last'.status = 401]_vars

(* C12 witness: an article exists, so a session had logged in; no session carries a
   userId any more, so it logged out; a request to read the article is answered 401. *)
C12_Witness ==
    /\ db.articles # {}
    /\ \A s \in SessionIds : sessions[s] = NoUser
    /\ last.route = "GET /api/articles/:id" /\ last.status = 401
    /\ last.param \in Ids(db.articles)

(* C13: a create that succeeds yields an article with views = 0, with publishedAt null
   when its status is not published and the time of the insert when it is, whatever
   views and publishedAt the payload carries, and linked to exactly the tags of
   tagIds (to none when tagIds is omitted or empty). *)
C13_CreateArticleResult ==
    [][(last'.route = "POST /api/articles" /\ last'.status = 200)
       => \E a \in db'.articles \ db.articles :
             /\ a.id = db.nextId.articles
             /\ a.views = 0
             /\ a.publishedAt =
                   IF Has(last'.body, "status") /\ last'.body.status = "published"
                   THEN now ELSE NULL
             /\ LinkedTagIds(db', a.id) =
                   IF last'.tagIds.given THEN Range(last'.tagIds.ids) ELSE {}
             /\ \A v \in getArticleById(db', a.id) : Ids(v.tags) = LinkedTagIds(db', a.id)]_vars

(* C13 witness: a published article was created from a payload carrying views = 1
   and publishedAt = null, with two tag ids, and has two links. *)
C13_Witness ==
    /\ last.route = "POST /api/articles" /\ last.status = 200
    /\ Has(last.body, "status") /\ last.body.status = "published"
    /\ Has(last.body, "views") /\ Has(last.body, "publishedAt")
    /\ last.body.publishedAt = NULL
    /\ last.tagIds = TagIdsOf(<<1, 2>>)
    /\ \E a \in db.articles :
          /\ a.id = db.nextId.articles - 1
          /\ a.publishedAt # NULL /\ a.views = 0
          /\ LinkedTagIds(db, a.id) = {1, 2}

(* C14: a GET that calls incrementArticleViews(id) raises the views of article id by
   exactly 1 and leaves every other column of that article, every other article and
   every other table, the links included, as they were; when no article has that id
   (it was deleted since the handler read it) the store does not change. *)
C14_IncrementChangesViewsOnly ==
    [][(/\ now' = now
        /\ last'.route = "GET /api/articles/:id"
        /\ last'.status = 200
        /\ ~Has(last'.body, "edit"))
       => /\ \A a \in db.articles :
                a.id = last'.param => [a EXCEPT !.views = a.views + 1] \in db'.articles
          /\ \A a \in db.articles : a.id # last'.param => a \in db'.articles
          /\ Ids(db'.articles) = Ids(db.articles)
          /\ db'.articleTags = db.articleTags
          /\ db'.tags = db.tags /\ db'.users = db.users /\ db'.categories = db.categories
          /\ last'.param \notin Ids(db.articles) => db' = db]_vars

(* C14 witness: the second view of a published article that has a link and was last
   updated before now: its views are 2, another article still has none. *)
C14_Witness ==
    /\ last.route = "GET /api/articles/:id" /\ last.status = 200
    /\ \E a, b \in db.articles :
          /\ a.id = last.param /\ a.views = 2
          /\ a.status = "published" /\ a.publishedAt # NULL /\ a.updatedAt < now
          /\ LinkedTagIds(db, a.id) # {}
          /\ b.id # a.id /\ b.views = 0

NameRoutes == {"POST /api/categories", "POST /api/tags"}

NameTaken(d, route, name) ==
    \E x \in (IF route = "POST /api/categories" THEN d.categories ELSE d.tags) : x.name = name

(* C15 as claimed: every duplicate key is found by a lookup before the insert, so no
   insert is ever attempted with a taken key and the store never rejects one. *)
C15_NoInsertWithTakenKey ==
    /\ last.error # "store"
    /\ \A r \in DOMAIN reqs : reqs[r].error # "store"

(* C15 amended: a registration whose username (then email) lookup finds a user ends
   there with 400 and the store untouched; a registration that reaches the insert
   with a key taken since its lookups, and a category or tag creation with a taken
   name (no lookup is made for these), attempt the insert, which the store rejects:
   they are answered 400 and the store is unchanged. *)
C15_ConflictsAnswered400 ==
    [][/\ \A r \in DOMAIN reqs :
             LET body == reqs[r].body
                 refused(error) == /\ reqs'[r].pc = "done" /\ reqs'[r].status = 400
                                   /\ reqs'[r].error = error /\ db' = db
             IN reqs'[r] # reqs[r]
                => /\ (/\ reqs[r].pc = "getUserByUsername"
                        /\ \E u \in db.users : u.username = body.username)
                      => refused("Username already exists")
                   /\ (/\ reqs[r].pc = "getUserByEmail"
                        /\ \E u \in db.users : u.email = body.email)
                      => refused("Email already exists")
                   /\ (/\ reqs[r].pc = "createUser"
                        /\ \E u \in db.users : u.username = body.username \/ u.email = body.email)
                      => refused("store")
       /\ (/\ last' # last
           /\ last'.route \in NameRoutes
           /\ sessions[last'.sess] # NoUser
           /\ NameTaken(db, last'.route, last'.body.name))
          => (last'.status = 400 /\ last'.error = "store" /\ db' = db)]_vars

(* C15 witness: a registration was refused by the username lookup, and a category
   with a taken name was refused by the store. *)
C15_Witness ==
    /\ last.route = "POST /api/categories" /\ last.status = 400 /\ last.error = "store"
    /\ \E c \in db.categories : c.name = last.body.name
    /\ \E r \in DOMAIN reqs :
          /\ reqs[r].pc = "done" /\ reqs[r].error = "Username already exists"
          /\ \E u \in db.users : u.username = reqs[r].body.username

(* The payload of a write request violates a field constraint of the schema of its
   resource (for PATCH, of a field it carries) *)
ViolatesSchema(route, body) ==
    CASE route \in RegistrationRoutes -> ~insertUserSchemaAccepts(body)
      [] route = "POST /api/articles" -> ~insertArticleSchemaAccepts([authorId |-> 1] @@ body)
      [] route = "PATCH /api/articles/:id" -> Has(body, "title") /\ StrLen(body.title) < 1
      [] route \in NameRoutes -> ~insertNameSchemaAccepts(body)
      [] OTHER -> FALSE

(* C16 as claimed: a write request whose payload violates a field constraint never
   reaches a write of the store: the store is as it was. *)
C16_InvalidPayloadNeverWrites ==
    [][(last' # last /\ ViolatesSchema(last'.route, last'.body)) => db' = db]_vars

ArticleIdRoutes ==
    {"GET /api/articles/:id", "PATCH /api/articles/:id", "DELETE /api/articles/:id"}

(* C17 as claimed: a GET, PATCH or DELETE of /api/articles/:id on a logged-in session
   whose id is the id of no article is answered with a client error (4xx), never
   with success, and leaves the store as it was. *)
C17_MissingArticleIsNotFound ==
    [][(/\ last' # last
        /\ last'.route \in ArticleIdRoutes
        /\ sessions[last'.sess] # NoUser
        /\ last'.param \notin Ids(db.articles))
       => (last'.status \in 400..499 /\ db' = db)]_vars

(* C18 as claimed: when the store rejects a write of a request, the request is
   answered with a server error (5xx), a status other than the 400 of a validation
   failure, and never with success. *)
C18_StoreRejectionIsServerError ==
    [][(last' # last /\ last'.error = "store") => last'.status \in 500..599]_vars

(* The requests a session may send to the protected routes *)
ProtectedRequests(s) ==
    {Request(s, route, 0, EmptyBody, NoTagIds) : route \in CollectionRoutes \cup {"GET /api/auth/me"}}
    \cup {Request(s, "GET /api/articles/:id", id, body, NoTagIds) :
             id \in 1..MaxArticles, body \in {ViewQuery, EditQuery}}
    \cup {Request(s, "POST /api/articles", 0, Hello, NoTagIds)}
    \cup {Request(s, "PATCH /api/articles/:id", id, [status |-> "published"], TagIdsOf(<<>>)) :
             id \in 1..MaxArticles}
    \cup {Request(s, "POST /api/employees", 0, body, NoTagIds) : body \in {AliceAdmin, Bob}}
    \cup {Request(s, route, 0, [name |-> "intro"], NoTagIds) : route \in NameRoutes}
    \cup {Request(s, route, id, EmptyBody, NoTagIds) :
             route \in {"DELETE /api/articles/:id", "DELETE /api/employees/:id",
                        "DELETE /api/categories/:id", "DELETE /api/tags/:id"},
             id \in 1..MaxUsers}

(* The same rows or objects, with the role of user userId changed to the other role *)
OtherRole(users, userId) ==
    {IF u.id = userId /\ Has(u, "role")
     THEN [u EXCEPT !.role = IF @ = "admin" THEN "employee" ELSE "admin"]
     ELSE u : u \in users}

(* C19: for a session that carries the id of a user, the outcome of every protected
   request is the same whether that user is an admin or an employee: in the store
   that differs only in that role the request gets the same status and error and
   makes the same change (the two results differ only in that role). *)
C19_OutcomeIndependentOfRole ==
    \A s \in SessionIds :
        sessions[s] \in Ids(db.users)
        => LET userId == sessions[s]
               other(d) == [d EXCEPT !.users = OtherRole(@, userId)]
           IN \A request \in ProtectedRequests(s) :
                 LET r1 == ProtectedReply(db, now, userId, request)
                     r2 == ProtectedReply(other(db), now, userId, request)
                 IN /\ r2.status = r1.status
                    /\ r2.error = r1.error
                    /\ r2.db = other(r1.db)
                    /\ r2.users = OtherRole(r1.users, userId)

(* C19 witness: on the session of a user whose role is employee, a request to delete
   the other user, an admin, was answered 200 and the admin is gone. *)
C19_Witness ==
    /\ last.route = "DELETE /api/employees/:id" /\ last.status = 200
    /\ \E u \in db.users : u.id = sessions[last.sess] /\ u.role = "employee"
    /\ last.param \notin Ids(db.users)
    /\ db.nextId.users = 3

(* C20 as claimed: in every state there is at most one row of articleTags for each
   pair of an article and a tag, also after a create or an update whose tagIds
   repeats an id. *)
C20_OneLinkPerArticleAndTag ==
    \A l1, l2 \in db.articleTags :
        (l1.articleId = l2.articleId /\ l1.tagId = l2.tagId) => l1 = l2

(* C21 as claimed: in every state the status of every article is draft or published;
   neither a create nor a partial update stores another status. *)
C21_StatusIsDraftOrPublished ==
    \A a \in db.articles : a.status \in {"draft", "published"}

(* C24: an update that carries status = published sets publishedAt to the current
   time, also on an article that was published before (a later time than the one it
   had, when the clock has advanced since); an update that does not carry it leaves
   publishedAt as it was, whatever publishedAt the payload carries; every update sets
   updatedAt to the current time. *)
C24_UpdateStampsPublishedAt ==
    [][(/\ now' = now
        /\ last'.route = "PATCH /api/articles/:id"
        /\ last'.status = 200)
       => \A a \in db.articles :
             a.id = last'.param
             => \E b \in db'.articles :
                   /\ b.id = a.id
                   /\ b.updatedAt = now
                   /\ b.publishedAt =
                         IF Has(last'.body, "status") /\ last'.body.status = "published"
                         THEN now ELSE a.publishedAt
                   /\ (/\ Has(last'.body, "status") /\ last'.body.status = "published"
                       /\ a.publishedAt # NULL /\ a.publishedAt < now)
                      => b.publishedAt > a.publishedAt]_vars

(* C24 witness: after the clock advanced, an update carrying status = published
   completed on an article created at time 0; its publishedAt and updatedAt are the
   current time. *)
C24_Witness ==
    /\ last.route = "PATCH /api/articles/:id" /\ last.status = 200
    /\ Has(last.body, "status") /\ last.body.status = "published"
    /\ now > 0
    /\ \E a \in db.articles :
          /\ a.id = last.param /\ a.createdAt = 0
          /\ a.publishedAt = now /\ a.updatedAt = now

(* C30 as claimed: the author of a created article is the user of the session that
   created it, whatever authorId the payload carries, and no partial update changes
   the id, the createdAt or the authorId of an article. *)
C30_IdCreatedAtAuthorIdNeverChange ==
    [][/\ (last'.route = "POST /api/articles" /\ last'.status = 200)
          => \A b \in db'.articles \ db.articles : b.authorId = sessions[last'.sess]
       /\ last'.route = "PATCH /api/articles/:id"
          => \A a \in db.articles :
                \E b \in db'.articles :
                   b.id = a.id /\ b.createdAt = a.createdAt /\ b.authorId = a.authorId]_vars

IsPrefix(r, s) == Len(r) <= Len(s) /\ \A i \in 1..Len(r) : r[i] = s[i]

(* The limit a call of getRecentArticles(limit) runs with *)
LimitOf(limit) == IF limit = NULL THEN 5 ELSE limit

(* What C22 says of the list a call resolved with, but for the relation to
   getAllArticles(): its length is min(limit, number of articles), with limit 5 when
   none was given; its elements are distinct articles of the store, each with its
   author, its category if it has one, and every tag linked to it; they come latest
   createdAt first, and no article left out was created later than one of the list. *)
RecentArticlesResult(r, limit) ==
    LET n == Cardinality(db.articles)
    IN /\ Len(r) = IF LimitOf(limit) < n THEN LimitOf(limit) ELSE n
       /\ \A i, j \in 1..Len(r) : i # j => r[i].article.id # r[j].article.id
       /\ \A i \in 1..Len(r) :
             /\ r[i].article \in db.articles
             /\ r[i].author = {u \in db.users : u.id = r[i].article.authorId}
             /\ r[i].category = {c \in db.categories : c.id = r[i].article.categoryId}
             /\ Ids(r[i].tags) = LinkedTagIds(db, r[i].article.id)
       /\ \A i, j \in 1..Len(r) : i < j => r[i].article.createdAt >= r[j].article.createdAt
       /\ \A a \in db.articles :
             a \notin {r[i].article : i \in 1..Len(r)}
             => \A i \in 1..Len(r) : a.createdAt <= r[i].article.createdAt

(* C22 as claimed: the list getRecentArticles(limit) resolves with is as above, and is
   a prefix of the list getAllArticles() resolves with. *)
C22_RecentIsPrefixOfAll ==
    last.route = "getRecentArticles"
    => /\ RecentArticlesResult(last.articles, last.param)
       /\ \A s \in getAllArticles(db) : IsPrefix(last.articles, s)

(* C22 amended: the list is as above; it is a prefix of a list getAllArticles() may
   resolve with, and of every such list when no two articles have the same
   createdAt. *)
C22_RecentArticles ==
    last.route = "getRecentArticles"
    => /\ RecentArticlesResult(last.articles, last.param)
       /\ \E s \in getAllArticles(db) : IsPrefix(last.articles, s)
       /\ (\A a, b \in db.articles : a # b => a.createdAt # b.createdAt)
          => \A s \in getAllArticles(db) : IsPrefix(last.articles, s)

(* C22 witness: with limit 1 and two articles created at different times the list
   holds the later one, with its category and its tag. *)
C22_Witness ==
    /\ last.route = "getRecentArticles" /\ last.param = 1
    /\ Cardinality(db.articles) = 2
    /\ Len(last.articles) = 1
    /\ \E a \in db.articles : a.createdAt < last.articles[1].article.createdAt
    /\ last.articles[1].category # {} /\ last.articles[1].tags # {}

ProtectedPages == {"Dashboard", "Articles", "ArticleEditor", "Employees", "Categories", "Tags"}

PublicPaths == {"/login", "/register"}

(* C23: once the auth query has finished loading, a client with isAuthenticated =
   false is shown no protected page: it is at /login or /register, and at /login when
   the location it visited was any other; a client with isAuthenticated = true that
   visited /login or /register is at /, and is never left at /login or /register. *)
C23_ClientRouting ==
    ~client.isLoading
    => /\ client.user = NoUser
          => /\ client.page \notin ProtectedPages
             /\ client.page = IF client.path = "/login" THEN "Login" ELSE "Register"
             /\ client.path \in PublicPaths
             /\ client.visited \notin PublicPaths => client.path = "/login"
       /\ client.user # NoUser
          => /\ client.path \notin PublicPaths
             /\ client.visited \in PublicPaths => (client.path = "/" /\ client.page = "Dashboard")

(* C23 witness: after a user logged in and the auth query settled with that user, the
   session logged out and the query settled with no user; the client, which visited
   /employees, is at /login. *)
C23_Witness ==
    /\ ~client.isLoading /\ client.user = NoUser
    /\ client.visited = "/employees" /\ client.path = "/login" /\ client.page = "Login"
    /\ db.users # {} /\ sessions["s1"] = NoUser
    /\ last.route = "GET /api/auth/me" /\ last.status = 401

(* C25 as claimed: a GET of /api/articles/:id on a logged-in session raises the views
   of an existing article by exactly 1 when the request has no edit flag in its
   query, leaves them as they were when the flag is present, and changes nothing when
   no article has the id. *)
C25_EditFlagSuppressesIncrement ==
    [][(last'.route = "GET /api/articles/:id" /\ sessions[last'.sess] # NoUser)
       => IF last'.param \in Ids(db.articles)
          THEN \A a \in db.articles :
                  a.id = last'.param
                  => [a EXCEPT !.views = IF Has(last'.body, "edit") THEN @ ELSE @ + 1]
                        \in db'.articles
          ELSE db' = db]_vars

(* C28 as claimed: whenever a create of an article is answered with an error the store
   is as it was before the request; a create whose links the store rejects leaves no
   article row behind. *)
C28_FailedCreateLeavesStoreUnchanged ==
    [][(last'.route = "POST /api/articles" /\ last'.status # 200) => db' = db]_vars

(* The updates of article id that are or were in flight *)
Patches(id) ==
    {r \in DOMAIN reqs : reqs[r].route = "PATCH /api/articles/:id" /\ reqs[r].param = id}

(* An update with tagIds that changed a row and deleted the links, and then stopped
   before the insert of the new links or had that insert rejected *)
StoppedBeforeLinks(r) ==
    /\ reqs[r].route = "PATCH /api/articles/:id" /\ reqs[r].tagIds.given
    /\ reqs[r].seen # {}
    /\ reqs[r].pc = "insert" \/ (reqs[r].pc = "done" /\ reqs[r].error = "store")

(* C26: when an update with tagIds, the only update of its article, stops after the
   delete of the links and before the insert of the new ones, or has that insert
   rejected, the article has no links, not the ones it had, and the row is as the
   update of the fields left it. *)
C26_FailedReplaceLeavesNoLinks ==
    \A r \in DOMAIN reqs :
        (StoppedBeforeLinks(r) /\ Patches(reqs[r].param) = {r})
        => /\ LinkedTagIds(db, reqs[r].param) = {}
           /\ reqs[r].seen \subseteq db.articles
           /\ \A a \in reqs[r].seen : a.status = reqs[r].body.status

(* C26 witness: article 1, created with a link to tag 1, was updated to published with
   tagIds = [2] while no tag 2 existed: the request was answered 400, the article is
   published and has no link. *)
C26_Witness ==
    /\ last.route = "POST /api/articles" /\ last.status = 200
    /\ last.tagIds = TagIdsOf(<<1>>) /\ db.nextId.articles = 2
    /\ \E r \in DOMAIN reqs :
          /\ StoppedBeforeLinks(r) /\ reqs[r].pc = "done" /\ reqs[r].status = 400
          /\ reqs[r].param = 1 /\ Patches(1) = {r}
          /\ reqs[r].tagIds = TagIdsOf(<<2>>)
    /\ \E a \in db.articles : a.id = 1 /\ a.status = "published"
    /\ 1 \in Ids(db.tags) /\ db.articleTags = {}

(* C27 as claimed: when the updates of an article, each with tagIds, have all completed,
   however their steps were interleaved, the link rows of the article are those of one
   of them: one row for each of its tag ids and no other row. *)
C27_ConcurrentReplaceKeepsOneSet ==
    \A id \in Ids(db.articles) :
        (/\ Patches(id) # {}
         /\ \A r \in Patches(id) : reqs[r].pc = "done" /\ reqs[r].status = 200)
        => \E r \in Patches(id) :
              /\ LinkedTagIds(db, id) = Range(reqs[r].tagIds.ids)
              /\ Cardinality({l \in db.articleTags : l.articleId = id})
                    = Cardinality(Range(reqs[r].tagIds.ids))

(* C29: after every step each link refers to an article and to a tag of the store,
   each article's authorId to a user and each categoryId that is not null to a
   category; a request to delete a user (other than the caller) or a category that
   an article refers to is rejected by the store, answered 500, and removes nothing. *)
C29_ReferentialIntegrity ==
    [][/\ \A l \in db'.articleTags :
             (\E a \in db'.articles : a.id = l.articleId) /\ (\E t \in db'.tags : t.id = l.tagId)
       /\ \A a \in db'.articles :
             /\ \E u \in db'.users : u.id = a.authorId
             /\ a.categoryId # NULL => \E c \in db'.categories : c.id = a.categoryId
       /\ (/\ last'.route = "DELETE /api/employees/:id"
           /\ sessions[last'.sess] \notin {NoUser, last'.param}
           /\ \E a \in db.articles : a.authorId = last'.param)
          => (last'.status = 500 /\ db' = db)
       /\ (/\ last'.route = "DELETE /api/categories/:id"
           /\ sessions[last'.sess] # NoUser
           /\ \E a \in db.articles : a.categoryId = last'.param)
          => (last'.status = 500 /\ db' = db)]_vars

(* C29 witness: the first user asked to delete the second, who is the author of an
   article in category 1 linked to tag 1: the store rejected the delete and the user
   is still there. *)
C29_Witness ==
    /\ last.route = "DELETE /api/employees/:id" /\ last.status = 500 /\ last.error = "store"
    /\ last.param \in Ids(db.users)
    /\ \E a \in db.articles :
          /\ a.authorId = last.param /\ a.categoryId = 1
          /\ LinkedTagIds(db, a.id) = {1}

====
